---- MODULE Spec2Model ----
(***************************************************************************)
(* Model of the crawl orchestration engine of web_crawler_extractor:       *)
(* src/src/crawler.py (CircuitBreaker, Crawler), with the URL policy of    *)
(* src/src/url_handler.py and the page records of src/src/site_mapper.py.  *)
(*                                                                         *)
(* Two specifications are defined.                                         *)
(*   SpecCB  drives a CircuitBreaker object through arbitrary sequences of *)
(*           record_failure / record_success / is_open calls while the     *)
(*           clock advances (the way tests/test_error_handling.py does).   *)
(*   Spec    is one invocation of Crawler.crawl: the asyncio tasks running *)
(*           _crawl_url, interleaved at their await points.                *)
(***************************************************************************)
EXTENDS Integers, Sequences, FiniteSets, TLC

\* ------------------------------------------------------------------------
\* Bounds of the model
\* ------------------------------------------------------------------------
MaxTime == 2         \* the clock runs over 0..MaxTime
MaxFailures == 4     \* SpecCB stops recording failures at this count
MaxTasks == 4        \* _crawl_url tasks created in one crawl
MaxSeeds == 2        \* len(start_urls)
MaxWideSeeds == 4    \* len(start_urls) in the crawls of SpecPool
MaxLinks == 2        \* config.max_links ranges over 0..MaxLinks
MaxDepth == 1        \* config.max_depth ranges over 0..MaxDepth
MaxRetries == 1      \* config.max_retries ranges over 0..MaxRetries
MaxLen == 4          \* length of the strings given to _normalize_url

\* ------------------------------------------------------------------------
\* Configuration of the circuit breaker (the values of the test fixture)
\* ------------------------------------------------------------------------
circuit_breaker_threshold == 2
circuit_breaker_timeout == 1

\* the fixed cap of the permit pool (crawler.py 74)
SemaphoreCap == 100
\* config.delay and config.retry_delay, in seconds (config.py 29, 19)
delay == 1
retry_delay == 1
\* random.uniform(0, 1): the ends of the interval
Jitters == {0, 1}

\* ------------------------------------------------------------------------
\* Strings.  A URL is named by its text; Chars gives the text as a sequence
\* whose elements are the scheme, the host and the single characters of the
\* rest (nothing in the code looks inside a scheme or a host name).  All
\* letters are lower case, so re.IGNORECASE and .lower() change nothing.
\* ------------------------------------------------------------------------
URLs == {"http://h1/a", "http://h1/a/b", "http://h1/login", "http://h1/ads", "http://h2/c"}
\* the crawls of SpecPool have one more page to start from and to link to
WideURLs == URLs \cup {"http://h1/d"}
\* the crawls of SpecForms start from a URL that is not in normalized form
FormURLs == {"http://h1/a/"}
AllURLs == WideURLs \cup FormURLs

Chars(u) ==
    CASE u = "http://h1/a"     -> <<"http", ":", "/", "/", "h1", "/", "a">>
      [] u = "http://h1/a/b"   -> <<"http", ":", "/", "/", "h1", "/", "a", "/", "b">>
      [] u = "http://h1/login" -> <<"http", ":", "/", "/", "h1", "/", "l", "o", "g", "i", "n">>
      [] u = "http://h1/ads"   -> <<"http", ":", "/", "/", "h1", "/", "a", "d", "s">>
      [] u = "http://h2/c"     -> <<"http", ":", "/", "/", "h2", "/", "c">>
      [] u = "http://h1/d"     -> <<"http", ":", "/", "/", "h1", "/", "d">>
      [] u = "http://h1/a/"    -> <<"http", ":", "/", "/", "h1", "/", "a", "/">>

\* position of a URL in the order in which task slots are handed out
UrlIndex(u) ==
    CASE u = "http://h1/a" -> 1 [] u = "http://h1/a/b" -> 2 [] u = "http://h1/login" -> 3
      [] u = "http://h1/ads" -> 4 [] u = "http://h2/c" -> 5 [] u = "http://h1/d" -> 6
      [] u = "http://h1/a/" -> 7

IsPrefixAt(p, s, i) ==
    /\ i >= 1
    /\ i + Len(p) - 1 <= Len(s)
    /\ \A k \in 1..Len(p) : s[i + k - 1] = p[k]
Contains(s, p) == \E i \in 1..(Len(s) + 1) : IsPrefixAt(p, s, i)
StartsWith(s, p) == IsPrefixAt(p, s, 1)
EndsWith(s, p) == IsPrefixAt(p, s, Len(s) - Len(p) + 1)
\* first position >= from holding one of the elements of cs, Len(s)+1 if none
FirstIdx(s, cs, from) ==
    IF \E i \in from..Len(s) : s[i] \in cs
    THEN CHOOSE i \in from..Len(s) : s[i] \in cs /\ \A j \in from..(i - 1) : s[j] \notin cs
    ELSE Len(s) + 1

\* urllib.parse.urlparse: the scheme, netloc and path components
urlparse(s) ==
    LET colon == FirstIdx(s, {":"}, 1)
        hasScheme == colon <= Len(s) /\ colon > 1
        r0 == IF hasScheme THEN colon + 1 ELSE 1
        hasNetloc == IsPrefixAt(<<"/", "/">>, s, r0)
        netlocEnd == FirstIdx(s, {"/", "?", "#"}, r0 + 2)
        pathStart == IF hasNetloc THEN netlocEnd ELSE r0
        pathEnd == FirstIdx(s, {"?", "#"}, pathStart)
    IN [scheme |-> IF hasScheme THEN SubSeq(s, 1, colon - 1) ELSE <<>>,
        netloc |-> IF hasNetloc THEN SubSeq(s, r0 + 2, netlocEnd - 1) ELSE <<>>,
        path |-> SubSeq(s, pathStart, pathEnd - 1)]

\* the host of a URL as the key the circuit breaker uses ("" when there is none)
NetlocKey(s) == LET n == urlparse(s).netloc IN IF n = <<>> THEN "" ELSE n[1]

Domains == {NetlocKey(Chars(u)) : u \in URLs}

VARIABLES
    \* ---- CircuitBreaker
    failures,        \* CircuitBreaker.failures: domain -> count (a defaultdict:
                     \* a partial function, a missing key reads as 0)
    open_circuits,   \* CircuitBreaker.open_circuits: domain -> open-until time
    now,             \* datetime.now(), in ticks
    \* ---- Crawler
    config,          \* the CrawlerConfig of the crawl: max_links, max_depth, max_retries,
                     \* same_path_only
    start_urls,      \* the seeds given to crawl
    visited_urls,    \* Crawler.visited_urls
    failed_urls,     \* Crawler.failed_urls
    total_links,     \* Crawler.total_links
    stop_crawling,   \* Crawler.stop_crawling
    links_semaphore, \* the value (free permits) of Crawler.links_semaphore
    error_counts,    \* Crawler.error_counts: error kind -> count (defaultdict)
    site_map,        \* SiteMapper.site_map: url -> depth of the page record (the
                     \* links, title and timestamp of a record are only written)
    concatenated_text, \* SiteMapper.concatenated_text: url -> number of entries
                     \* of the list that carry the url
    tasks,           \* the _crawl_url tasks: slot -> [pc, url, depth, origin, parent,
                     \* retry_count] and the history of the task (see NoTask)
    crawl_pc,        \* position of crawl: "gather" (awaiting the seed tasks), "done"
    report,          \* the value crawl returned: the result of generate_output
    \* ---- observation of the calls SpecCB makes
    cb_last,         \* the last call made on the breaker by SpecCB:
                     \* [op, domain, result, before] (before = the failure
                     \* count of the domain when the call was made)
    consec,          \* per domain, the number of record_failure calls since the
                     \* last record_success or the last open-to-closed transition
    \* ---- observation of the calls SpecNorm makes
    normalized       \* [url, calls, before, result]: the string SpecNorm started
                     \* from, the number of _normalize_url calls made on it, the
                     \* argument and the result of the last call

cbvars == <<failures, open_circuits, now>>
crawlvars == <<config, start_urls, visited_urls, failed_urls, total_links, stop_crawling,
               links_semaphore, error_counts, site_map, concatenated_text, tasks,
               crawl_pc, report>>
obsvars == <<cb_last, consec, normalized>>
vars == <<failures, open_circuits, now, config, start_urls, visited_urls, failed_urls,
          total_links, stop_crawling, links_semaphore, error_counts, site_map,
          concatenated_text, tasks, crawl_pc, report, cb_last, consec, normalized>>

\* ------------------------------------------------------------------------
\* Dictionaries
\* ------------------------------------------------------------------------
EmptyDict == [k \in {} |-> 0]
Put(f, k, v) == [x \in (DOMAIN f) \cup {k} |-> IF x = k THEN v ELSE f[x]]
Del(f, k) == [x \in (DOMAIN f) \ {k} |-> f[x]]
\* defaultdict(int) read
Get(f, k) == IF k \in DOMAIN f THEN f[k] ELSE 0

\* ------------------------------------------------------------------------
\* CircuitBreaker (crawler.py 18-50).  A breaker value is the record
\* [failures, open_circuits]; the methods return the breaker after the call.
\* ------------------------------------------------------------------------
CB == [failures |-> failures, open_circuits |-> open_circuits]

record_failure_late(cb, domain) ==
    LET n == Get(cb.failures, domain) + 1
    IN [failures |-> Put(cb.failures, domain, n),
        open_circuits |->
            IF n > circuit_breaker_threshold /\ domain \notin DOMAIN cb.open_circuits
            THEN Put(cb.open_circuits, domain, now + circuit_breaker_timeout)
            ELSE cb.open_circuits]

record_failure_all(cb, domain) ==
    LET n == Get(cb.failures, domain) + 1
    IN [failures |-> Put(cb.failures, domain, n),
        open_circuits |->
            IF n >= circuit_breaker_threshold /\ domain \notin DOMAIN cb.open_circuits
            THEN [d \in Domains |-> now + circuit_breaker_timeout]
            ELSE cb.open_circuits]

record_failure_renews(cb, domain) ==
    LET n == Get(cb.failures, domain) + 1
    IN [failures |-> Put(cb.failures, domain, n),
        open_circuits |->
            IF n >= circuit_breaker_threshold
            THEN Put(cb.open_circuits, domain, now + circuit_breaker_timeout)
            ELSE cb.open_circuits]

record_failure(cb, domain) ==
    LET n == Get(cb.failures, domain) + 1
    IN [failures |-> Put(cb.failures, domain, n),
        open_circuits |->
            IF n >= circuit_breaker_threshold /\ domain \notin DOMAIN cb.open_circuits
            THEN Put(cb.open_circuits, domain, now + circuit_breaker_timeout)
            ELSE cb.open_circuits]

record_success_closes(cb, domain) ==
    [failures |-> IF domain \in DOMAIN cb.failures
                  THEN Put(cb.failures, domain, 0) ELSE cb.failures,
     open_circuits |-> Del(cb.open_circuits, domain)]

record_success(cb, domain) ==
    [failures |-> IF domain \in DOMAIN cb.failures
                  THEN Put(cb.failures, domain, 0) ELSE cb.failures,
     open_circuits |-> cb.open_circuits]

\* is_open returns a value and may change the breaker: [result, cb]
is_open_early(cb, domain) ==
    IF domain \in DOMAIN cb.open_circuits
    THEN IF now >= cb.open_circuits[domain]
         THEN [result |-> FALSE,
               cb |-> [failures |-> Put(cb.failures, domain, 0),
                       open_circuits |-> Del(cb.open_circuits, domain)]]
         ELSE [result |-> TRUE, cb |-> cb]
    ELSE [result |-> FALSE, cb |-> cb]

is_open_never(cb, domain) == [result |-> FALSE, cb |-> cb]

is_open(cb, domain) ==
    IF domain \in DOMAIN cb.open_circuits
    THEN IF now > cb.open_circuits[domain]
         THEN [result |-> FALSE,
               cb |-> [failures |-> Put(cb.failures, domain, 0),
                       open_circuits |-> Del(cb.open_circuits, domain)]]
         ELSE [result |-> TRUE, cb |-> cb]
    ELSE [result |-> FALSE, cb |-> cb]

\* ------------------------------------------------------------------------
\* URL policy (url_handler.py).  One URLHandler per seed ("origin"); all of
\* them are built from the same config, so a handler is named by its seed.
\* ------------------------------------------------------------------------
exclude_keywords == {<<"a", "d", "s">>}
respect_robots_txt == TRUE
\* what the robots.txt of an origin disallows (fetched by an external parser)
robots_disallowed(origin) == {}

\* _normalize_url: drop the fragment, then one trailing slash
_normalize_url(s) ==
    LET hash == FirstIdx(s, {"#"}, 1)
        nofrag == SubSeq(s, 1, hash - 1)
    IN IF Len(nofrag) > 0 /\ nofrag[Len(nofrag)] = "/"
       THEN SubSeq(nofrag, 1, Len(nofrag) - 1) ELSE nofrag

base_domain(origin) == urlparse(_normalize_url(Chars(origin))).netloc
base_path_prefix(origin) == urlparse(_normalize_url(Chars(origin))).path

AssetExtensions ==
    {<<".", "j", "p", "g">>, <<".", "j", "p", "e", "g">>, <<".", "p", "n", "g">>,
     <<".", "g", "i", "f">>, <<".", "i", "c", "o">>, <<".", "c", "s", "s">>,
     <<".", "j", "s">>, <<".", "x", "m", "l">>, <<".", "j", "s", "o", "n">>}
AuthWords ==
    {<<"l", "o", "g", "i", "n">>, <<"l", "o", "g", "o", "u", "t">>,
     <<"s", "i", "g", "n", "i", "n">>, <<"s", "i", "g", "n", "o", "u", "t">>,
     <<"a", "d", "m", "i", "n">>}

_is_excluded_url_off(u) == FALSE

_is_excluded_url(u) ==
    LET s == Chars(u)
    IN \/ \E e \in AssetExtensions : EndsWith(s, e)
       \/ Contains(s, <<"m", "a", "i", "l", "t", "o", ":">>) \/ Contains(s, <<"t", "e", "l", ":">>)
       \/ \E w \in AuthWords : Contains(s, w)
       \/ Contains(s, <<"?", "u", "t", "m", "_">>) \/ Contains(s, <<"&", "u", "t", "m", "_">>)
       \/ \E kw \in exclude_keywords : Contains(urlparse(s).path, kw)

is_valid_url(u) ==
    LET parsed == urlparse(Chars(u))
    IN /\ parsed.scheme \in {<<"http">>, <<"https">>}
       /\ parsed.netloc # <<>>
       /\ ~_is_excluded_url(u)

has_same_path_prefix(origin, u) ==
    \/ base_path_prefix(origin) = <<>>
    \/ base_path_prefix(origin) = <<"/">>
    \/ StartsWith(urlparse(Chars(u)).path, base_path_prefix(origin))

is_internal_url_any(same_path_only, origin, u) == TRUE

\* same_path_only is the attribute crawl copies from the config into the
\* handler (crawler.py 103)
is_internal_url(same_path_only, origin, u) ==
    LET parsed == urlparse(Chars(u))
        is_same_domain == parsed.netloc = base_domain(origin) \/ parsed.netloc = <<>>
    IN IF same_path_only
       THEN is_same_domain /\ has_same_path_prefix(origin, u)
       ELSE is_same_domain

can_fetch(origin, u) ==
    IF ~respect_robots_txt THEN TRUE ELSE u \notin robots_disallowed(origin)

non_html_extensions ==
    {<<".", "p", "d", "f">>, <<".", "d", "o", "c">>, <<".", "d", "o", "c", "x">>,
     <<".", "p", "p", "t">>, <<".", "p", "p", "t", "x">>, <<".", "x", "l", "s">>,
     <<".", "x", "l", "s", "x">>, <<".", "z", "i", "p">>, <<".", "r", "a", "r">>,
     <<".", "t", "a", "r">>, <<".", "g", "z">>, <<".", "j", "p", "g">>,
     <<".", "j", "p", "e", "g">>, <<".", "p", "n", "g">>, <<".", "g", "i", "f">>,
     <<".", "m", "p", "3">>, <<".", "m", "p", "4">>, <<".", "a", "v", "i">>,
     <<".", "m", "o", "v">>, <<".", "w", "m", "v">>, <<".", "f", "l", "v">>,
     <<".", "c", "s", "v">>, <<".", "x", "m", "l">>}

\* The policy applied to every URL of the model, computed once
ExcludedURLs == {u \in AllURLs : _is_excluded_url(u)}
ValidURLs == {u \in AllURLs : is_valid_url(u)}
NonHtmlFileURLs ==
    {u \in AllURLs : \E ext \in non_html_extensions : EndsWith(urlparse(Chars(u)).path, ext)}
InternalURLs ==
    [same_path_only \in BOOLEAN |->
        [origin \in AllURLs |->
            {u \in AllURLs : is_internal_url(same_path_only, origin, u)}]]
FetchableURLs == [origin \in AllURLs |-> {u \in AllURLs : can_fetch(origin, u)}]
DomainOf == [u \in AllURLs |-> NetlocKey(Chars(u))]
\* the URL whose text is the normalized text of u
NormalOf == [u \in AllURLs |-> CHOOSE v \in AllURLs : Chars(v) = _normalize_url(Chars(u))]

\* extract_links: the hrefs of a page (absolute URLs, which urljoin leaves as
\* they are) are normalized and the valid ones are kept (a set: no duplicates)
extract_links(hrefs) == {NormalOf[h] : h \in hrefs} \cap ValidURLs

\* ------------------------------------------------------------------------
\* SpecCB: calls on one CircuitBreaker object
\* ------------------------------------------------------------------------
NoCall == [op |-> "none", domain |-> "h1", result |-> FALSE, before |-> 0]

Tasks == 1..MaxTasks

\* an unused task slot.  Besides the locals of _crawl_url a task carries its
\* history: attempts (session.get calls made), late (it started when the stop
\* flag was set), acquired (it obtained a permit), releases (release() calls
\* made), hist ("none": no attempt finished yet, "retryable": every finished
\* attempt was a retryable failure, "other": some finished attempt was not),
\* counted (it incremented total_links), slept (the sleeps, in seconds, the
\* task has made in the retry loop since its last attempt ended).
NoTask == [pc |-> "idle", url |-> "", depth |-> 0, origin |-> "", parent |-> 0,
           retry_count |-> 0, attempts |-> 0, late |-> FALSE, acquired |-> FALSE,
           releases |-> 0, hist |-> "none", counted |-> FALSE, slept |-> <<>>]

\* crawl has not returned
NoReport == [start_urls |-> {}, total_pages |-> 0, site_map |-> EmptyDict,
             llmfulltext |-> EmptyDict]

\* the configurations of the model: every budget, depth limit and retry limit
\* within the bounds with same_path_only off (its default), and the widest
\* crawl without retries with same_path_only on
Configs ==
    [max_links : 0..MaxLinks, max_depth : 0..MaxDepth, max_retries : 0..MaxRetries,
     same_path_only : {FALSE}]
    \cup [max_links : {MaxLinks}, max_depth : {MaxDepth}, max_retries : {0},
          same_path_only : {TRUE}]

Min(a, b) == IF a <= b THEN a ELSE b
\* Crawler.__init__: the size of the permit pool
PoolSize(cfg) == Min(SemaphoreCap, cfg.max_links * 2)

\* no string has been given to _normalize_url
NoNorm == [url |-> <<>>, calls |-> 0, before |-> <<>>, result |-> <<>>]

\* CircuitBreaker.__init__ and Crawler.__init__, for any configuration of cfgs
InitConfigured(cfgs) ==
    /\ failures = EmptyDict
    /\ open_circuits = EmptyDict
    /\ now = 0
    /\ config \in cfgs
    /\ start_urls = {}
    /\ visited_urls = {}
    /\ failed_urls = {}
    /\ total_links = 0
    /\ stop_crawling = FALSE
    /\ links_semaphore = PoolSize(config)
    /\ error_counts = EmptyDict
    /\ site_map = EmptyDict
    /\ concatenated_text = EmptyDict
    /\ tasks = [t \in Tasks |-> NoTask]
    /\ crawl_pc = "idle"
    /\ report = NoReport
    /\ cb_last = NoCall
    /\ consec = [d \in Domains |-> 0]

InitCrawler == InitConfigured(Configs)

Init == InitCrawler /\ normalized = NoNorm

CB_record_failure(d) ==
    /\ crawl_pc = "idle"
    /\ Get(failures, d) < MaxFailures
    /\ LET cb2 == record_failure(CB, d)
       IN /\ failures' = cb2.failures
          /\ open_circuits' = cb2.open_circuits
    /\ cb_last' = [op |-> "record_failure", domain |-> d, result |-> FALSE,
                   before |-> Get(failures, d)]
    /\ consec' = [consec EXCEPT ![d] = @ + 1]
    /\ UNCHANGED <<now, crawlvars, normalized>>

CB_record_success(d) ==
    /\ crawl_pc = "idle"
    /\ LET cb2 == record_success(CB, d)
       IN /\ failures' = cb2.failures
          /\ open_circuits' = cb2.open_circuits
    /\ cb_last' = [op |-> "record_success", domain |-> d, result |-> FALSE,
                   before |-> Get(failures, d)]
    /\ consec' = [consec EXCEPT ![d] = 0]
    /\ UNCHANGED <<now, crawlvars, normalized>>

CB_is_open(d) ==
    /\ crawl_pc = "idle"
    /\ LET r == is_open(CB, d)
       IN /\ failures' = r.cb.failures
          /\ open_circuits' = r.cb.open_circuits
          /\ cb_last' = [op |-> "is_open", domain |-> d, result |-> r.result,
                         before |-> Get(failures, d)]
          /\ consec' = IF d \in DOMAIN open_circuits /\ d \notin DOMAIN r.cb.open_circuits
                       THEN [consec EXCEPT ![d] = 0] ELSE consec
    /\ UNCHANGED <<now, crawlvars, normalized>>

Tick ==
    /\ now < MaxTime
    /\ now' = now + 1
    /\ UNCHANGED <<failures, open_circuits, cb_last, consec, crawlvars, normalized>>

NextCB ==
    \/ \E d \in Domains : CB_record_failure(d)
    \/ \E d \in Domains : CB_record_success(d)
    \/ \E d \in Domains : CB_is_open(d)
    \/ Tick

SpecCB == Init /\ [][NextCB]_vars

\* ------------------------------------------------------------------------
\* Crawler (crawler.py 52-420).  The tasks of one crawl run on one event
\* loop: a task runs without interruption from one await to the next, so an
\* action is the code between two awaits.
\* ------------------------------------------------------------------------
Outcomes == {"200_html", "200_not_html", "200_undecodable", "500", "404", "204",
             "timeout", "client_error", "exception"}
Retryable == {"500", "timeout", "client_error"}
\* the key of error_counts an outcome is tallied under
ErrorType(o) ==
    CASE o = "500" -> "HTTP 500" [] o = "404" -> "HTTP 404" [] o = "204" -> "HTTP 204"
      [] o = "timeout" -> "Timeout" [] o = "client_error" -> "ClientError"
      [] o = "exception" -> "Exception"

UsedSlots == Cardinality({t \in Tasks : tasks[t].pc # "idle"})
Domain(u) == DomainOf[u]
\* rank of u among the URLs of the set S, in UrlIndex order
Rank(u, S) == Cardinality({x \in S : UrlIndex(x) <= UrlIndex(u)})

\* _should_crawl (crawler.py 380-420) on the session state
\* st = [stop, visited, failed, cb]; returns [result, cb]: the list given to
\* all() is built in full, so is_open is called whatever the other tests say
_should_crawl(st, u, depth, origin) ==
    IF st.stop THEN [result |-> FALSE, cb |-> st.cb]
    ELSE IF u \in NonHtmlFileURLs
    THEN [result |-> FALSE, cb |-> st.cb]
    ELSE LET r == is_open(st.cb, Domain(u))
         IN [result |-> /\ u \notin st.visited
                        /\ u \notin st.failed
                        /\ depth <= config.max_depth
                        /\ u \in ValidURLs
                        /\ u \in FetchableURLs[origin]
                        /\ ~r.result,
             cb |-> r.cb]

\* the loop of crawler.py 238-240 over the links of a page: the links for
\* which a child task is created, and the breaker after the calls
RECURSIVE child_links(_, _, _, _)
child_links(st, links, depth, origin) ==
    IF links = {} THEN [admitted |-> {}, cb |-> st.cb]
    ELSE LET l == CHOOSE x \in links : \A y \in links : UrlIndex(x) <= UrlIndex(y)
             r == _should_crawl(st, l, depth, origin)
             rest == child_links([st EXCEPT !.cb = r.cb], links \ {l}, depth, origin)
         IN [admitted |-> (IF r.result THEN {l} ELSE {}) \cup rest.admitted,
             cb |-> rest.cb]

SessionState == [stop |-> stop_crawling, visited |-> visited_urls,
                 failed |-> failed_urls, cb |-> CB]

\* the pages of the site whose extracted content is empty
BlankPages == {"http://h2/c"}

\* SiteMapper.add_page (site_mapper.py 35-41): a page with content gets one
\* more entry in the text corpus
add_text(u) ==
    IF u \in BlankPages THEN concatenated_text
    ELSE Put(concatenated_text, u, Get(concatenated_text, u) + 1)

NewTask(u, depth, origin, parent) ==
    [NoTask EXCEPT !.pc = "start", !.url = u, !.depth = depth, !.origin = origin,
                   !.parent = parent]

\* crawl (crawler.py 86-117): one handler and one task per seed, then gather
Crawl(seeds) ==
    /\ crawl_pc = "idle"
    /\ start_urls' = seeds
    /\ tasks' = [t \in Tasks |->
                    IF \E u \in seeds : Rank(u, seeds) = t
                    THEN LET u == CHOOSE x \in seeds : Rank(x, seeds) = t
                         IN NewTask(u, 0, u, 0)
                    ELSE NoTask]
    /\ crawl_pc' = "gather"
    /\ UNCHANGED <<cbvars, obsvars, config, visited_urls, failed_urls, total_links,
                   stop_crawling, links_semaphore, error_counts, site_map, concatenated_text, report>>

\* the task leaves _crawl_url; n is the number of release() calls it makes
\* on the way out
Finish(tk, n) == [tk EXCEPT !.pc = "done", !.releases = @ + n, !.slept = <<>>]

Start_released(t) ==
    /\ tasks[t].pc = "start"
    /\ IF stop_crawling
       THEN /\ tasks' = [tasks EXCEPT ![t] = [Finish(@, 0) EXCEPT !.late = TRUE]]
            /\ UNCHANGED links_semaphore
       ELSE IF links_semaphore = 0
       THEN /\ tasks' = [tasks EXCEPT ![t] = Finish(@, 1)]
            /\ links_semaphore' = links_semaphore + 1
       ELSE /\ tasks' = [tasks EXCEPT ![t] = [@ EXCEPT !.pc = "acquire"]]
            /\ UNCHANGED links_semaphore
    /\ UNCHANGED <<cbvars, obsvars, config, start_urls, visited_urls, failed_urls,
                   total_links, stop_crawling, error_counts, site_map, concatenated_text, crawl_pc, report>>

Start_unchecked(t) ==
    /\ tasks[t].pc = "start"
    /\ tasks' = [tasks EXCEPT ![t] =
                    IF links_semaphore = 0 THEN Finish(@, 0)
                    ELSE [@ EXCEPT !.pc = "acquire"]]
    /\ UNCHANGED <<cbvars, obsvars, config, start_urls, visited_urls, failed_urls,
                   total_links, stop_crawling, links_semaphore, error_counts, site_map, concatenated_text,
                   crawl_pc, report>>

\* crawler.py 137-153: the stop flag, then the saturation pre-check; a task
\* that goes on awaits wait_for(acquire)
Start(t) ==
    /\ tasks[t].pc = "start"
    /\ tasks' = [tasks EXCEPT ![t] =
                    IF stop_crawling THEN [Finish(@, 0) EXCEPT !.late = TRUE]
                    ELSE IF links_semaphore = 0 THEN Finish(@, 0)
                    ELSE [@ EXCEPT !.pc = "acquire"]]
    /\ UNCHANGED <<cbvars, obsvars, config, start_urls, visited_urls, failed_urls,
                   total_links, stop_crawling, links_semaphore, error_counts, site_map, concatenated_text,
                   crawl_pc, report>>

\* crawler.py 146-184: wait_for(acquire) returns.  Without a free permit it
\* times out and the task returns.  With a permit, exclusion, _should_crawl
\* and the breaker decide; a rejected task calls release() and returns
\* through the finally clause, which calls release() again.
Acquire(t) ==
    /\ tasks[t].pc = "acquire"
    /\ LET tk == [tasks[t] EXCEPT !.acquired = TRUE]
           sc == _should_crawl(SessionState, tk.url, tk.depth, tk.origin)
           op == is_open(sc.cb, Domain(tk.url))
       IN IF links_semaphore = 0
          THEN /\ tasks' = [tasks EXCEPT ![t] = Finish(@, 0)]
               /\ UNCHANGED <<links_semaphore, failures, open_circuits>>
          ELSE IF tk.url \in ExcludedURLs
          THEN /\ tasks' = [tasks EXCEPT ![t] = Finish(tk, 2)]
               /\ links_semaphore' = links_semaphore - 1 + 2
               /\ UNCHANGED <<failures, open_circuits>>
          ELSE IF ~sc.result
          THEN /\ tasks' = [tasks EXCEPT ![t] = Finish(tk, 2)]
               /\ links_semaphore' = links_semaphore - 1 + 2
               /\ failures' = sc.cb.failures
               /\ open_circuits' = sc.cb.open_circuits
          ELSE IF op.result
          THEN /\ tasks' = [tasks EXCEPT ![t] = Finish(tk, 2)]
               /\ links_semaphore' = links_semaphore - 1 + 2
               /\ failures' = op.cb.failures
               /\ open_circuits' = op.cb.open_circuits
          ELSE /\ tasks' = [tasks EXCEPT ![t] = [tk EXCEPT !.pc = "sleep", !.retry_count = 0]]
               /\ links_semaphore' = links_semaphore - 1
               /\ failures' = op.cb.failures
               /\ open_circuits' = op.cb.open_circuits
    /\ UNCHANGED <<now, obsvars, config, start_urls, visited_urls, failed_urls,
                   total_links, stop_crawling, error_counts, site_map, concatenated_text, crawl_pc, report>>

\* crawler.py 189-193: the pacing delay is over, session.get is called
Get_(t) ==
    /\ tasks[t].pc = "sleep"
    /\ tasks' = [tasks EXCEPT ![t] = [@ EXCEPT !.pc = "get", !.attempts = @ + 1,
                                                !.slept = Append(@, delay)]]
    /\ UNCHANGED <<cbvars, obsvars, config, start_urls, visited_urls, failed_urls,
                   total_links, stop_crawling, links_semaphore, error_counts, site_map, concatenated_text,
                   crawl_pc, report>>

Success_early(t, hrefs) ==
    /\ tasks[t].pc = "get"
    /\ LET tk == tasks[t]
           cb1 == record_success(CB, Domain(tk.url))
           links == extract_links(hrefs)
           internal_links == links \cap InternalURLs[config.same_path_only][tk.origin]
           total2 == total_links + 1
           stop2 == stop_crawling \/ total2 >= config.max_links
           st == [stop |-> stop2, visited |-> visited_urls \cup {tk.url},
                  failed |-> failed_urls, cb |-> cb1]
           ch == IF tk.depth < config.max_depth /\ ~stop2
                 THEN child_links(st, internal_links, tk.depth + 1, tk.origin)
                 ELSE [admitted |-> {}, cb |-> cb1]
           used == UsedSlots
           me == [tk EXCEPT !.hist = "other", !.counted = TRUE]
       IN /\ used + Cardinality(ch.admitted) <= MaxTasks
          /\ site_map' = IF ch.admitted = {} THEN Put(site_map, tk.url, tk.depth) ELSE site_map
          /\ concatenated_text' = add_text(tk.url)
          /\ visited_urls' = visited_urls \cup {tk.url}
          /\ total_links' = total2
          /\ stop_crawling' = stop2
          /\ failures' = ch.cb.failures
          /\ open_circuits' = ch.cb.open_circuits
          /\ IF ch.admitted = {}
             THEN /\ tasks' = [tasks EXCEPT ![t] = Finish(me, 1)]
                  /\ links_semaphore' = links_semaphore + 1
             ELSE /\ tasks' = [s \in Tasks |->
                        IF s = t THEN [me EXCEPT !.pc = "gather"]
                        ELSE IF \E l \in ch.admitted : used + Rank(l, ch.admitted) = s
                        THEN LET l == CHOOSE x \in ch.admitted :
                                          used + Rank(x, ch.admitted) = s
                             IN NewTask(l, tk.depth + 1, tk.origin, t)
                        ELSE tasks[s]]
                  /\ UNCHANGED links_semaphore
    /\ UNCHANGED <<now, obsvars, config, start_urls, failed_urls, error_counts, crawl_pc, report>>

Success_deep(t, hrefs) ==
    /\ tasks[t].pc = "get"
    /\ LET tk == tasks[t]
           cb1 == record_success(CB, Domain(tk.url))
           links == extract_links(hrefs)
           internal_links == links \cap InternalURLs[config.same_path_only][tk.origin]
           total2 == total_links + 1
           stop2 == stop_crawling \/ total2 >= config.max_links
           st == [stop |-> stop2, visited |-> visited_urls \cup {tk.url},
                  failed |-> failed_urls, cb |-> cb1]
           ch == IF ~stop2
                 THEN child_links(st, internal_links, tk.depth, tk.origin)
                 ELSE [admitted |-> {}, cb |-> cb1]
           used == UsedSlots
           me == [tk EXCEPT !.hist = "other", !.counted = TRUE]
       IN /\ used + Cardinality(ch.admitted) <= MaxTasks
          /\ site_map' = Put(site_map, tk.url, tk.depth)
          /\ concatenated_text' = add_text(tk.url)
          /\ visited_urls' = visited_urls \cup {tk.url}
          /\ total_links' = total2
          /\ stop_crawling' = stop2
          /\ failures' = ch.cb.failures
          /\ open_circuits' = ch.cb.open_circuits
          /\ IF ch.admitted = {}
             THEN /\ tasks' = [tasks EXCEPT ![t] = Finish(me, 1)]
                  /\ links_semaphore' = links_semaphore + 1
             ELSE /\ tasks' = [s \in Tasks |->
                        IF s = t THEN [me EXCEPT !.pc = "gather"]
                        ELSE IF \E l \in ch.admitted : used + Rank(l, ch.admitted) = s
                        THEN LET l == CHOOSE x \in ch.admitted :
                                          used + Rank(x, ch.admitted) = s
                             IN NewTask(l, tk.depth + 1, tk.origin, t)
                        ELSE tasks[s]]
                  /\ UNCHANGED links_semaphore
    /\ UNCHANGED <<now, obsvars, config, start_urls, failed_urls, error_counts, crawl_pc, report>>

Success_lax(t, hrefs) ==
    /\ tasks[t].pc = "get"
    /\ LET tk == tasks[t]
           cb1 == record_success(CB, Domain(tk.url))
           links == extract_links(hrefs)
           internal_links == links \cap InternalURLs[config.same_path_only][tk.origin]
           total2 == total_links + 1
           stop2 == stop_crawling \/ total2 > config.max_links
           st == [stop |-> stop2, visited |-> visited_urls \cup {tk.url},
                  failed |-> failed_urls, cb |-> cb1]
           ch == IF tk.depth < config.max_depth /\ ~stop2
                 THEN child_links(st, internal_links, tk.depth + 1, tk.origin)
                 ELSE [admitted |-> {}, cb |-> cb1]
           used == UsedSlots
           me == [tk EXCEPT !.hist = "other", !.counted = TRUE]
       IN /\ used + Cardinality(ch.admitted) <= MaxTasks
          /\ site_map' = Put(site_map, tk.url, tk.depth)
          /\ concatenated_text' = add_text(tk.url)
          /\ visited_urls' = visited_urls \cup {tk.url}
          /\ total_links' = total2
          /\ stop_crawling' = stop2
          /\ failures' = ch.cb.failures
          /\ open_circuits' = ch.cb.open_circuits
          /\ IF ch.admitted = {}
             THEN /\ tasks' = [tasks EXCEPT ![t] = Finish(me, 1)]
                  /\ links_semaphore' = links_semaphore + 1
             ELSE /\ tasks' = [s \in Tasks |->
                        IF s = t THEN [me EXCEPT !.pc = "gather"]
                        ELSE IF \E l \in ch.admitted : used + Rank(l, ch.admitted) = s
                        THEN LET l == CHOOSE x \in ch.admitted :
                                          used + Rank(x, ch.admitted) = s
                             IN NewTask(l, tk.depth + 1, tk.origin, t)
                        ELSE tasks[s]]
                  /\ UNCHANGED links_semaphore
    /\ UNCHANGED <<now, obsvars, config, start_urls, failed_urls, error_counts, crawl_pc, report>>

\* crawler.py 197-246: a 200 response with HTML that decodes; hrefs are the
\* anchors of the page
Success(t, hrefs) ==
    /\ tasks[t].pc = "get"
    /\ LET tk == tasks[t]
           cb1 == record_success(CB, Domain(tk.url))
           links == extract_links(hrefs)
           internal_links == links \cap InternalURLs[config.same_path_only][tk.origin]
           total2 == total_links + 1
           stop2 == stop_crawling \/ total2 >= config.max_links
           st == [stop |-> stop2, visited |-> visited_urls \cup {tk.url},
                  failed |-> failed_urls, cb |-> cb1]
           ch == IF tk.depth < config.max_depth /\ ~stop2
                 THEN child_links(st, internal_links, tk.depth + 1, tk.origin)
                 ELSE [admitted |-> {}, cb |-> cb1]
           used == UsedSlots
           me == [tk EXCEPT !.hist = "other", !.counted = TRUE]
       IN /\ used + Cardinality(ch.admitted) <= MaxTasks
          /\ site_map' = Put(site_map, tk.url, tk.depth)
          /\ concatenated_text' = add_text(tk.url)
          /\ visited_urls' = visited_urls \cup {tk.url}
          /\ total_links' = total2
          /\ stop_crawling' = stop2
          /\ failures' = ch.cb.failures
          /\ open_circuits' = ch.cb.open_circuits
          /\ IF ch.admitted = {}
             THEN /\ tasks' = [tasks EXCEPT ![t] = Finish(me, 1)]
                  /\ links_semaphore' = links_semaphore + 1
             ELSE /\ tasks' = [s \in Tasks |->
                        IF s = t THEN [me EXCEPT !.pc = "gather"]
                        ELSE IF \E l \in ch.admitted : used + Rank(l, ch.admitted) = s
                        THEN LET l == CHOOSE x \in ch.admitted :
                                          used + Rank(x, ch.admitted) = s
                             IN NewTask(l, tk.depth + 1, tk.origin, t)
                        ELSE tasks[s]]
                  /\ UNCHANGED links_semaphore
    /\ UNCHANGED <<now, obsvars, config, start_urls, failed_urls, error_counts, crawl_pc, report>>

NotPage_failed(t, o) ==
    /\ tasks[t].pc = "get"
    /\ o \in {"200_not_html", "200_undecodable"}
    /\ failed_urls' = failed_urls \cup {tasks[t].url}
    /\ tasks' = [tasks EXCEPT ![t] = Finish([@ EXCEPT !.hist = "other"], 1)]
    /\ links_semaphore' = links_semaphore + 1
    /\ UNCHANGED <<cbvars, obsvars, config, start_urls, visited_urls, total_links,
                   stop_crawling, error_counts, site_map, concatenated_text, crawl_pc, report>>

\* crawler.py 199-210: status 200 with another content type, or a body that
\* does not decode
NotPage(t, o) ==
    /\ tasks[t].pc = "get"
    /\ o \in {"200_not_html", "200_undecodable"}
    /\ visited_urls' = visited_urls \cup {tasks[t].url}
    /\ tasks' = [tasks EXCEPT ![t] = Finish([@ EXCEPT !.hist = "other"], 1)]
    /\ links_semaphore' = links_semaphore + 1
    /\ UNCHANGED <<cbvars, obsvars, config, start_urls, failed_urls, total_links,
                   stop_crawling, error_counts, site_map, concatenated_text, crawl_pc, report>>

RetryableFailure_short(t, o) ==
    /\ tasks[t].pc = "get"
    /\ o \in Retryable
    /\ error_counts' = Put(error_counts, ErrorType(o), Get(error_counts, ErrorType(o)) + 1)
    /\ LET cb1 == record_failure(CB, Domain(tasks[t].url))
           tk == [tasks[t] EXCEPT !.hist = IF @ = "other" THEN @ ELSE "retryable"]
       IN /\ failures' = cb1.failures
          /\ open_circuits' = cb1.open_circuits
          /\ IF tk.retry_count + 1 >= config.max_retries
             THEN /\ failed_urls' = failed_urls \cup {tk.url}
                  /\ tasks' = [tasks EXCEPT ![t] = Finish(tk, 1)]
                  /\ links_semaphore' = links_semaphore + 1
             ELSE /\ tasks' = [tasks EXCEPT ![t] = [tk EXCEPT !.pc = "backoff"]]
                  /\ UNCHANGED <<failed_urls, links_semaphore>>
    /\ UNCHANGED <<now, obsvars, config, start_urls, visited_urls, total_links,
                   stop_crawling, site_map, concatenated_text, crawl_pc, report>>

RetryableFailure_marks(t, o) ==
    /\ tasks[t].pc = "get"
    /\ o \in Retryable
    /\ error_counts' = Put(error_counts, ErrorType(o), Get(error_counts, ErrorType(o)) + 1)
    /\ failed_urls' = failed_urls \cup {tasks[t].url}
    /\ LET cb1 == record_failure(CB, Domain(tasks[t].url))
           tk == [tasks[t] EXCEPT !.hist = IF @ = "other" THEN @ ELSE "retryable"]
       IN /\ failures' = cb1.failures
          /\ open_circuits' = cb1.open_circuits
          /\ IF tk.retry_count = config.max_retries
             THEN /\ tasks' = [tasks EXCEPT ![t] = Finish(tk, 1)]
                  /\ links_semaphore' = links_semaphore + 1
             ELSE /\ tasks' = [tasks EXCEPT ![t] = [tk EXCEPT !.pc = "backoff"]]
                  /\ UNCHANGED links_semaphore
    /\ UNCHANGED <<now, obsvars, config, start_urls, visited_urls, total_links,
                   stop_crawling, site_map, concatenated_text, crawl_pc, report>>

RetryableFailure_perurl(t, o) ==
    /\ tasks[t].pc = "get"
    /\ o \in Retryable
    /\ error_counts' = Put(error_counts, ErrorType(o), Get(error_counts, ErrorType(o)) + 1)
    /\ LET cb1 == IF tasks[t].retry_count = config.max_retries
                  THEN record_failure(CB, Domain(tasks[t].url)) ELSE CB
           tk == [tasks[t] EXCEPT !.hist = IF @ = "other" THEN @ ELSE "retryable"]
       IN /\ failures' = cb1.failures
          /\ open_circuits' = cb1.open_circuits
          /\ IF tk.retry_count = config.max_retries
             THEN /\ failed_urls' = failed_urls \cup {tk.url}
                  /\ tasks' = [tasks EXCEPT ![t] = Finish(tk, 1)]
                  /\ links_semaphore' = links_semaphore + 1
             ELSE /\ tasks' = [tasks EXCEPT ![t] = [tk EXCEPT !.pc = "backoff"]]
                  /\ UNCHANGED <<failed_urls, links_semaphore>>
    /\ UNCHANGED <<now, obsvars, config, start_urls, visited_urls, total_links,
                   stop_crawling, site_map, concatenated_text, crawl_pc, report>>

RetryableFailure_untallied(t, o) ==
    /\ tasks[t].pc = "get"
    /\ o \in Retryable
    /\ error_counts' = IF tasks[t].retry_count = config.max_retries
                       THEN Put(error_counts, ErrorType(o), Get(error_counts, ErrorType(o)) + 1)
                       ELSE error_counts
    /\ LET cb1 == record_failure(CB, Domain(tasks[t].url))
           tk == [tasks[t] EXCEPT !.hist = IF @ = "other" THEN @ ELSE "retryable"]
       IN /\ failures' = cb1.failures
          /\ open_circuits' = cb1.open_circuits
          /\ IF tk.retry_count = config.max_retries
             THEN /\ failed_urls' = failed_urls \cup {tk.url}
                  /\ tasks' = [tasks EXCEPT ![t] = Finish(tk, 1)]
                  /\ links_semaphore' = links_semaphore + 1
             ELSE /\ tasks' = [tasks EXCEPT ![t] = [tk EXCEPT !.pc = "backoff"]]
                  /\ UNCHANGED <<failed_urls, links_semaphore>>
    /\ UNCHANGED <<now, obsvars, config, start_urls, visited_urls, total_links,
                   stop_crawling, site_map, concatenated_text, crawl_pc, report>>

\* crawler.py 248-268, 286-345: a 5xx status, a timeout or a transport error
RetryableFailure(t, o) ==
    /\ tasks[t].pc = "get"
    /\ o \in Retryable
    /\ error_counts' = Put(error_counts, ErrorType(o), Get(error_counts, ErrorType(o)) + 1)
    /\ LET cb1 == record_failure(CB, Domain(tasks[t].url))
           tk == [tasks[t] EXCEPT !.hist = IF @ = "other" THEN @ ELSE "retryable"]
       IN /\ failures' = cb1.failures
          /\ open_circuits' = cb1.open_circuits
          /\ IF tk.retry_count = config.max_retries
             THEN /\ failed_urls' = failed_urls \cup {tk.url}
                  /\ tasks' = [tasks EXCEPT ![t] = Finish(tk, 1)]
                  /\ links_semaphore' = links_semaphore + 1
             ELSE /\ tasks' = [tasks EXCEPT ![t] = [tk EXCEPT !.pc = "backoff"]]
                  /\ UNCHANGED <<failed_urls, links_semaphore>>
    /\ UNCHANGED <<now, obsvars, config, start_urls, visited_urls, total_links,
                   stop_crawling, site_map, concatenated_text, crawl_pc, report>>

Backoff_flat(t, jitter) ==
    /\ tasks[t].pc = "backoff"
    /\ tasks' = [tasks EXCEPT ![t] =
                    [@ EXCEPT !.pc = "sleep", !.retry_count = @ + 1,
                              !.slept = <<retry_delay + jitter>>]]
    /\ UNCHANGED <<cbvars, obsvars, config, start_urls, visited_urls, failed_urls,
                   total_links, stop_crawling, links_semaphore, error_counts, site_map, concatenated_text,
                   crawl_pc, report>>

\* crawler.py 264-268: the backoff sleep of retry_delay * 2^retry_count plus
\* the jitter is over, the loop goes round
Backoff(t, jitter) ==
    /\ tasks[t].pc = "backoff"
    /\ tasks' = [tasks EXCEPT ![t] =
                    [@ EXCEPT !.pc = "sleep", !.retry_count = @ + 1,
                              !.slept = <<retry_delay * 2^tasks[t].retry_count + jitter>>]]
    /\ UNCHANGED <<cbvars, obsvars, config, start_urls, visited_urls, failed_urls,
                   total_links, stop_crawling, links_semaphore, error_counts, site_map, concatenated_text,
                   crawl_pc, report>>

TerminalFailure_uncaught(t, o) ==
    /\ tasks[t].pc = "get"
    /\ o \in Outcomes \ (Retryable \cup {"200_html", "200_not_html", "200_undecodable"})
    /\ IF o = "exception"
       THEN UNCHANGED <<error_counts, failed_urls>>
       ELSE /\ error_counts' = Put(error_counts, ErrorType(o),
                                   Get(error_counts, ErrorType(o)) + 1)
            /\ failed_urls' = failed_urls \cup {tasks[t].url}
    /\ tasks' = [tasks EXCEPT ![t] = Finish([@ EXCEPT !.hist = "other"], 1)]
    /\ links_semaphore' = links_semaphore + 1
    /\ UNCHANGED <<cbvars, obsvars, config, start_urls, visited_urls, total_links,
                   stop_crawling, site_map, concatenated_text, crawl_pc, report>>

TerminalFailure_retried(t, o) ==
    /\ tasks[t].pc = "get"
    /\ o \in Outcomes \ (Retryable \cup {"200_html", "200_not_html", "200_undecodable"})
    /\ error_counts' = Put(error_counts, ErrorType(o), Get(error_counts, ErrorType(o)) + 1)
    /\ IF tasks[t].retry_count = config.max_retries
       THEN /\ failed_urls' = failed_urls \cup {tasks[t].url}
            /\ tasks' = [tasks EXCEPT ![t] = Finish([@ EXCEPT !.hist = "other"], 1)]
            /\ links_semaphore' = links_semaphore + 1
       ELSE /\ tasks' = [tasks EXCEPT ![t] = [@ EXCEPT !.pc = "backoff"]]
            /\ UNCHANGED <<failed_urls, links_semaphore>>
    /\ UNCHANGED <<cbvars, obsvars, config, start_urls, visited_urls, total_links,
                   stop_crawling, site_map, concatenated_text, crawl_pc, report>>

\* crawler.py 270-284, 368-373: a 4xx status, another status, or an
\* exception that is neither a timeout nor a ClientError
TerminalFailure(t, o) ==
    /\ tasks[t].pc = "get"
    /\ o \in Outcomes \ (Retryable \cup {"200_html", "200_not_html", "200_undecodable"})
    /\ error_counts' = Put(error_counts, ErrorType(o), Get(error_counts, ErrorType(o)) + 1)
    /\ failed_urls' = failed_urls \cup {tasks[t].url}
    /\ tasks' = [tasks EXCEPT ![t] = Finish([@ EXCEPT !.hist = "other"], 1)]
    /\ links_semaphore' = links_semaphore + 1
    /\ UNCHANGED <<cbvars, obsvars, config, start_urls, visited_urls, total_links,
                   stop_crawling, site_map, concatenated_text, crawl_pc, report>>

GatherDone_early(t) ==
    /\ tasks[t].pc = "gather"
    /\ tasks' = [tasks EXCEPT ![t] = Finish(@, 1)]
    /\ links_semaphore' = links_semaphore + 1
    /\ UNCHANGED <<cbvars, obsvars, config, start_urls, visited_urls, failed_urls,
                   total_links, stop_crawling, error_counts, site_map, concatenated_text, crawl_pc, report>>

GatherDone_strict(t) ==
    /\ tasks[t].pc = "gather"
    /\ \A c \in Tasks : tasks[c].parent = t => tasks[c].pc = "done" /\ tasks[c].counted
    /\ tasks' = [tasks EXCEPT ![t] = Finish(@, 1)]
    /\ links_semaphore' = links_semaphore + 1
    /\ UNCHANGED <<cbvars, obsvars, config, start_urls, visited_urls, failed_urls,
                   total_links, stop_crawling, error_counts, site_map, concatenated_text, crawl_pc, report>>

\* crawler.py 243-246, 374-378: gather returns when every child is done
GatherDone(t) ==
    /\ tasks[t].pc = "gather"
    /\ \A c \in Tasks : tasks[c].parent = t => tasks[c].pc = "done"
    /\ tasks' = [tasks EXCEPT ![t] = Finish(@, 1)]
    /\ links_semaphore' = links_semaphore + 1
    /\ UNCHANGED <<cbvars, obsvars, config, start_urls, visited_urls, failed_urls,
                   total_links, stop_crawling, error_counts, site_map, concatenated_text, crawl_pc, report>>

\* SiteMapper.generate_output (site_mapper.py 55-99): the seeds, the number
\* of page records, the site map itself and the sections of the text corpus
generate_output(seeds) ==
    [start_urls |-> seeds, total_pages |-> Cardinality(DOMAIN site_map),
     site_map |-> site_map, llmfulltext |-> concatenated_text]

CrawlReturn_eager ==
    /\ crawl_pc = "gather"
    /\ \E t \in Tasks : tasks[t].parent = 0 /\ tasks[t].pc = "done"
    /\ crawl_pc' = "done"
    /\ report' = generate_output(start_urls)
    /\ UNCHANGED <<cbvars, obsvars, config, start_urls, visited_urls, failed_urls,
                   total_links, stop_crawling, links_semaphore, error_counts, site_map, concatenated_text,
                   tasks>>

\* crawler.py 117-125: the seed tasks are done, the report is generated
CrawlReturn ==
    /\ crawl_pc = "gather"
    /\ \A t \in Tasks : tasks[t].pc # "idle" /\ tasks[t].parent = 0 => tasks[t].pc = "done"
    /\ crawl_pc' = "done"
    /\ report' = generate_output(start_urls)
    /\ UNCHANGED <<cbvars, obsvars, config, start_urls, visited_urls, failed_urls,
                   total_links, stop_crawling, links_semaphore, error_counts, site_map, concatenated_text,
                   tasks>>

\* time passes while the crawl runs.  The clock is read only to set and to
\* test open-until times, so its ticks matter only while there is an entry.
CrawlTick ==
    /\ crawl_pc = "gather"
    /\ open_circuits # EmptyDict
    /\ Tick

SeedSets == {S \in SUBSET URLs : S # {} /\ Cardinality(S) <= Min(MaxSeeds, MaxTasks)}

Next ==
    \/ \E S \in SeedSets : Crawl(S)
    \/ \E t \in Tasks : Start(t)
    \/ \E t \in Tasks : Acquire(t)
    \/ \E t \in Tasks : Get_(t)
    \/ \E t \in Tasks, hrefs \in SUBSET URLs : Success(t, hrefs)
    \/ \E t \in Tasks, o \in Outcomes : NotPage(t, o)
    \/ \E t \in Tasks, o \in Outcomes : RetryableFailure(t, o)
    \/ \E t \in Tasks, jitter \in Jitters : Backoff(t, jitter)
    \/ \E t \in Tasks, o \in Outcomes : TerminalFailure(t, o)
    \/ \E t \in Tasks : GatherDone(t)
    \/ CrawlReturn
    \/ CrawlTick

Spec == Init /\ [][Next]_vars

\* Crawls of one seed or of MaxWideSeeds seeds under the smallest budget: max_links
\* = 1, so the pool holds 2 permits; links may be followed one level deep and
\* nothing is retried.  The steps are those of Next that such a crawl takes.
PoolConfig == [max_links |-> 1, max_depth |-> 1, max_retries |-> 0,
               same_path_only |-> FALSE]
InitPool == Init /\ config = PoolConfig
WideSeedSets ==
    {S \in SUBSET WideURLs : Cardinality(S) \in {1, Min(MaxWideSeeds, MaxTasks)}}

NextPool ==
    \/ \E S \in WideSeedSets : Crawl(S)
    \/ \E t \in Tasks : Start(t)
    \/ \E t \in Tasks : Acquire(t)
    \/ \E t \in Tasks : Get_(t)
    \/ \E t \in Tasks, hrefs \in SUBSET WideURLs : Success(t, hrefs)
    \/ \E t \in Tasks, o \in Outcomes : NotPage(t, o)
    \/ \E t \in Tasks, o \in Outcomes : RetryableFailure(t, o)
    \/ \E t \in Tasks, o \in Outcomes : TerminalFailure(t, o)
    \/ CrawlReturn

SpecPool == InitPool /\ [][NextPool]_vars

\* SpecRetry: crawls of one seed with one retry more than the configurations
\* of Spec allow, so that a second backoff follows the first.  The steps are
\* those of Next that such a crawl takes.
RetryConfig == [max_links |-> 1, max_depth |-> 0, max_retries |-> MaxRetries + 1,
                same_path_only |-> FALSE]
InitRetry == InitConfigured({RetryConfig}) /\ normalized = NoNorm
NextRetry ==
    \/ \E u \in URLs : Crawl({u})
    \/ \E t \in Tasks : Start(t)
    \/ \E t \in Tasks : Acquire(t)
    \/ \E t \in Tasks : Get_(t)
    \/ \E t \in Tasks, hrefs \in SUBSET URLs : Success(t, hrefs)
    \/ \E t \in Tasks, o \in Outcomes : NotPage(t, o)
    \/ \E t \in Tasks, o \in Outcomes : RetryableFailure(t, o)
    \/ \E t \in Tasks, jitter \in Jitters : Backoff(t, jitter)
    \/ \E t \in Tasks, o \in Outcomes : TerminalFailure(t, o)
    \/ CrawlReturn
    \/ CrawlTick
SpecRetry == InitRetry /\ [][NextRetry]_vars

\* SpecForms: crawls whose seeds and links are among the forms of one page
\* (with and without the trailing slash) and a second page, with a budget and
\* a depth that let a link be followed.  The steps are those of Next that
\* such a crawl takes.
FormConfig == [max_links |-> 2, max_depth |-> 1, max_retries |-> 0,
               same_path_only |-> FALSE]
FormPages == FormURLs \cup {"http://h1/a", "http://h1/a/b"}
FormSeedSets == {S \in SUBSET FormPages : S # {} /\ Cardinality(S) <= Min(MaxSeeds, MaxTasks)}
InitForms == InitConfigured({FormConfig}) /\ normalized = NoNorm
NextForms ==
    \/ \E S \in FormSeedSets : Crawl(S)
    \/ \E t \in Tasks : Start(t)
    \/ \E t \in Tasks : Acquire(t)
    \/ \E t \in Tasks : Get_(t)
    \/ \E t \in Tasks, hrefs \in SUBSET FormPages : Success(t, hrefs)
    \/ \E t \in Tasks, o \in Outcomes : TerminalFailure(t, o)
    \/ \E t \in Tasks : GatherDone(t)
    \/ CrawlReturn
SpecForms == InitForms /\ [][NextForms]_vars

\* SpecNorm: _normalize_url applied, and applied again to its own result, to
\* every string of at most MaxLen elements over NormChars: a scheme, a host,
\* a path letter and the characters the function and urlparse look for.
NormChars == {"http", "h1", "a", ":", "/", "#"}
NormInputs == UNION {[1..n -> NormChars] : n \in 0..MaxLen}
InitNorm ==
    /\ InitCrawler
    /\ config = PoolConfig
    /\ \E s \in NormInputs : normalized = [url |-> s, calls |-> 0, before |-> s, result |-> s]

Normalize ==
    /\ crawl_pc = "idle"
    /\ normalized.calls < 2
    /\ normalized' = [normalized EXCEPT !.calls = @ + 1, !.before = normalized.result,
                                          !.result = _normalize_url(normalized.result)]
    /\ UNCHANGED <<cbvars, crawlvars, cb_last, consec>>

NextNorm == Normalize

SpecNorm == InitNorm /\ [][NextNorm]_vars

\* The event loop runs every task that is ready: a timer that was set
\* (permit wait of 0.1 s, pacing delay, backoff) fires, a request ends with a
\* response or with the ClientTimeout of the session (crawler.py 107), and a
\* gather resumes when its tasks are done.  Every step of Next is such a
\* resumption, so a crawl that can take a step eventually takes one.
FairSpec == Init /\ [][Next]_vars /\ WF_vars(Next)

\* ------------------------------------------------------------------------
\* Crawl properties (checked under Spec)
\* ------------------------------------------------------------------------
Running == {t \in Tasks : tasks[t].pc \notin {"idle", "done"}}
TasksOf(u) == {t \in Tasks : tasks[t].pc # "idle" /\ tasks[t].url = u}

\* C1: the success counter total_links never exceeds the link budget
\* config.max_links, in any state of a crawl and when crawl has returned.
C1_CounterWithinBudget == total_links <= config.max_links

\* C2: no URL is counted as a success more than once: at most one task
\* increments total_links (and adds the page) for a URL.
C2_CountedOnce == \A u \in URLs : Cardinality({t \in TasksOf(u) : tasks[t].counted}) <= 1

\* C3: a task that obtained a permit releases it exactly once on every way
\* out (a task that obtained none releases none), so the free permits never
\* exceed the pool size and equal it when no task is running.
C3_PermitReleasedOnce ==
    /\ \A t \in Tasks : tasks[t].pc = "done" =>
            tasks[t].releases = (IF tasks[t].acquired THEN 1 ELSE 0)
    /\ links_semaphore <= PoolSize(config)
    /\ Running = {} => links_semaphore = PoolSize(config)

\* C4: once stop_crawling is set no URL is admitted: a task that starts with
\* the flag set returns at once, having made no network attempt and without
\* changing visited_urls, failed_urls, total_links or the site map; no task
\* passes admission (reaches its fetch loop) while the flag is set.
C4_NoAdmissionAfterStop ==
    [][\A t \in Tasks :
          /\ (stop_crawling /\ tasks[t].pc = "start" /\ tasks'[t] # tasks[t]) =>
                /\ tasks'[t].pc = "done"
                /\ tasks'[t].attempts = 0
                /\ UNCHANGED <<visited_urls, failed_urls, total_links, site_map>>
          /\ (stop_crawling /\ tasks[t].pc \in {"start", "acquire"}) =>
                tasks'[t].pc \in {"start", "acquire", "done"}
          /\ tasks'[t].late => tasks'[t].pc = "done" /\ tasks'[t].attempts = 0]_vars

\* a task returned because it started under the stop flag while a task
\* admitted before the flag was set is still under way
C4_Witness ==
    \E t, e \in Tasks :
        /\ tasks[t].late /\ tasks[t].pc = "done"
        /\ tasks[e].pc \in {"sleep", "get", "backoff", "gather"}
        /\ stop_crawling

\* C5: once the stop flag is set no task starts a network attempt
\* (session.get), be it a first attempt or a retry.
C5_NoFetchAfterStop ==
    [][stop_crawling => \A t \in Tasks : tasks'[t].attempts = tasks[t].attempts]_vars

\* the URLs of the model that the exclusion rules name: an auth word in the
\* URL, the configured keyword "ads" in the path
C6_Excluded == {"http://h1/login", "http://h1/ads"}

\* C6: an excluded URL is never in visited_urls or failed_urls, never gets a
\* network attempt, is never counted and never gets a page record, whether it
\* is a seed or a link.
C6_ExcludedNeverFetched ==
    \A u \in C6_Excluded :
        /\ u \notin visited_urls \cup failed_urls
        /\ u \notin DOMAIN site_map
        /\ \A t \in TasksOf(u) : tasks[t].attempts = 0 /\ ~tasks[t].counted
                                 /\ tasks[t].pc \in {"start", "acquire", "done"}

\* an excluded seed went through the exclusion check while the budget was
\* open, and another page of the crawl was counted
C6_Witness ==
    \E t \in Tasks :
        /\ tasks[t].url \in C6_Excluded /\ tasks[t].depth = 0
        /\ tasks[t].pc = "done" /\ tasks[t].acquired /\ ~tasks[t].late
        /\ total_links > 0

\* C7: a task whose attempts all end in a retryable error makes exactly
\* max_retries + 1 attempts and then its URL is in failed_urls; a URL all of
\* whose attempts ended that way is not in visited_urls.
C7_RetriesThenFailed ==
    /\ \A t \in Tasks :
          /\ tasks[t].hist = "retryable" => tasks[t].attempts <= config.max_retries + 1
          /\ (tasks[t].pc = "done" /\ tasks[t].hist = "retryable") =>
                /\ tasks[t].attempts = config.max_retries + 1
                /\ tasks[t].url \in failed_urls
    /\ \A u \in URLs :
          (\A t \in TasksOf(u) : tasks[t].hist # "other") => u \notin visited_urls

\* a task failed max_retries + 1 = 2 times and gave up, the circuit of its
\* domain having opened on the way
C7_Witness ==
    \E t \in Tasks :
        /\ tasks[t].pc = "done" /\ tasks[t].hist = "retryable"
        /\ config.max_retries = 1 /\ tasks[t].attempts = 2
        /\ tasks[t].url \in failed_urls
        /\ Domain(tasks[t].url) \in DOMAIN open_circuits

\* the circuit of domain d is open and its timeout has not elapsed
CircuitOpen(d) == d \in DOMAIN open_circuits /\ now <= open_circuits[d]

\* C11: a URL presented for admission while the circuit of its domain is
\* open (timeout not elapsed) gets no network attempt and its task adds
\* nothing to visited_urls or failed_urls; no child task is created for a link
\* whose circuit is open; a failure count at or above the threshold always
\* comes with an open-until entry, so this covers every URL presented after
\* the count reached the threshold.
C11_OpenCircuitSkips ==
    [][/\ \A t \in Tasks :
            (/\ tasks[t].pc = "acquire"
             /\ CircuitOpen(Domain(tasks[t].url))
             /\ tasks'[t] # tasks[t]) =>
                /\ tasks'[t].pc = "done"
                /\ tasks'[t].attempts = 0
                /\ UNCHANGED <<visited_urls, failed_urls, total_links, site_map>>
       /\ \A t \in Tasks :
            (tasks[t].pc = "idle" /\ tasks'[t].pc = "start" /\ tasks'[t].depth > 0) =>
                ~(/\ Domain(tasks'[t].url) \in DOMAIN open_circuits'
                  /\ now' <= open_circuits'[Domain(tasks'[t].url)])
       /\ \A d \in Domains :
            Get(failures', d) >= circuit_breaker_threshold => d \in DOMAIN open_circuits']_vars

\* a seed that nothing else rules out was turned away at admission, holding a
\* permit, because the failures of another task had opened the circuit
C11_Witness ==
    \E t \in Tasks :
        /\ tasks[t].pc = "done" /\ tasks[t].acquired /\ tasks[t].attempts = 0
        /\ tasks[t].url \in ValidURLs
        /\ tasks[t].url \notin visited_urls \cup failed_urls
        /\ ~stop_crawling
        /\ CircuitOpen(Domain(tasks[t].url))
        /\ Get(failures, Domain(tasks[t].url)) >= circuit_breaker_threshold

\* the outcomes that are a status other than 200 and 5xx
C12_Statuses == {"404", "204"}
\* the step is task t receiving the status o: its attempt ends and the tally
\* of that status is the one that grows
C12_Receives(t, o) ==
    /\ tasks[t].pc = "get" /\ tasks'[t] # tasks[t]
    /\ Get(error_counts', ErrorType(o)) = Get(error_counts, ErrorType(o)) + 1

\* C12 as stated: whenever a task receives a status that is neither 200 nor
\* 5xx, exactly one network attempt has been made by it, its URL is added to
\* failed_urls, the tally of the status grows by 1 and the task is over.
C12_ExactlyOneAttempt ==
    [][\A t \in Tasks, o \in C12_Statuses :
          C12_Receives(t, o) =>
             /\ tasks'[t].attempts = 1
             /\ tasks'[t].pc = "done"
             /\ tasks'[t].url \in failed_urls']_vars

\* C12, amended: a status that is neither 200 nor 5xx ends the task at once:
\* no attempt follows it (the attempts of the task are the one answered plus
\* the retryable failures before it, retry_count of them), the URL is added
\* to failed_urls, the tally "HTTP <status>" grows by 1 and no other tally
\* changes, the breaker is not told, and a finished task never acts again.
C12_TerminalStatus ==
    [][/\ \A t \in Tasks, o \in C12_Statuses :
            C12_Receives(t, o) =>
               /\ tasks'[t].pc = "done"
               /\ tasks'[t].attempts = tasks[t].attempts
               /\ tasks'[t].attempts = tasks[t].retry_count + 1
               /\ tasks'[t].url \in failed_urls'
               /\ failed_urls' = failed_urls \cup {tasks[t].url}
               /\ error_counts' = Put(error_counts, ErrorType(o),
                                      Get(error_counts, ErrorType(o)) + 1)
               /\ UNCHANGED <<failures, open_circuits, visited_urls, total_links>>
       /\ \A t \in Tasks : tasks[t].pc = "done" => tasks'[t] = tasks[t]]_vars

\* the only seed of a crawl was answered 404 on its second attempt (the first
\* was a retryable failure) and the task is over with two attempts made
C12_Witness ==
    \E t \in Tasks :
        /\ start_urls = {tasks[t].url} /\ tasks[t].pc = "done"
        /\ tasks[t].attempts = 2 /\ tasks[t].retry_count = 1
        /\ tasks[t].url \in failed_urls
        /\ Get(error_counts, "HTTP 404") = 1
        /\ Cardinality(DOMAIN error_counts) = 2

\* C13: a task whose attempts fail k <= max_retries times with retryable
\* errors and then get a 200 with HTML that decodes has made exactly k + 1
\* attempts (k = retry_count) and makes no more; its URL is in visited_urls
\* and has a page record, the task has not put it in failed_urls (it is not
\* there when this is the URL's only task), and the success is counted once:
\* total_links is the number of tasks that succeeded.  The breaker is not
\* consulted between attempts, so this holds with the circuit open.
C13_RetryThenSuccess ==
    /\ \A t \in Tasks :
          tasks[t].counted =>
             /\ tasks[t].pc \in {"gather", "done"}
             /\ tasks[t].retry_count <= config.max_retries
             /\ tasks[t].attempts = tasks[t].retry_count + 1
             /\ tasks[t].url \in visited_urls
             /\ tasks[t].url \in DOMAIN site_map
             /\ TasksOf(tasks[t].url) = {t} => tasks[t].url \notin failed_urls
    /\ total_links = Cardinality({t \in Tasks : tasks[t].counted})

\* a task failed once, the circuit of its domain opened (on a failure of
\* another task), and its second attempt succeeded: the count of the domain
\* was reset by that success while the circuit stays open
C13_Witness ==
    \E t \in Tasks :
        /\ tasks[t].counted /\ tasks[t].attempts = 2 /\ tasks[t].retry_count = 1
        /\ TasksOf(tasks[t].url) = {t}
        /\ total_links = 1
        /\ CircuitOpen(Domain(tasks[t].url))
        /\ Get(failures, Domain(tasks[t].url)) = 0

\* the outcomes of an attempt that are failures
C14_Failures == Outcomes \ {"200_html", "200_not_html", "200_undecodable"}

\* C14: the end of an attempt is always accounted for inside the task.  A
\* failure (5xx, 4xx, other status, timeout, transport error, exception) is
\* tallied in error_counts and the task either backs off for a retry or ends
\* with its URL in failed_urls, giving its permit back; it changes no other
\* running task, does not set the stop flag and does not end crawl, which
\* still waits for the seed tasks and then returns the report.
C14_FailuresContained ==
    [][\A t \in Tasks :
          (tasks[t].pc = "get" /\ tasks'[t] # tasks[t]) =>
             /\ \A s \in Tasks \ {t} : tasks[s].pc # "idle" => tasks'[s] = tasks[s]
             /\ crawl_pc' = crawl_pc /\ crawl_pc = "gather"
             /\ \/ /\ tasks[t].url \in visited_urls'
                   /\ UNCHANGED <<error_counts, failed_urls>>
                \/ /\ \E o \in C14_Failures :
                         error_counts' = Put(error_counts, ErrorType(o),
                                             Get(error_counts, ErrorType(o)) + 1)
                   /\ tasks'[t].pc \in {"backoff", "done"}
                   /\ tasks'[t].pc = "done" =>
                         /\ failed_urls' = failed_urls \cup {tasks[t].url}
                         /\ links_semaphore' = links_semaphore + 1
                   /\ tasks'[t].pc = "backoff" =>
                         UNCHANGED <<failed_urls, links_semaphore>>
                   /\ UNCHANGED <<stop_crawling, visited_urls, total_links, site_map>>]_vars

\* crawl has returned its report after a crawl of two seeds in which every
\* page failed: one on a status that is not retried, one on an exception
C14_Witness ==
    /\ crawl_pc = "done"
    /\ Cardinality(start_urls) = 2
    /\ start_urls \subseteq failed_urls
    /\ site_map = EmptyDict /\ total_links = 0
    /\ Get(error_counts, "Exception") = 1
    /\ Get(error_counts, "HTTP 404") = 1
    /\ \A t \in Tasks : tasks[t].pc \in {"idle", "done"}

\* C15: under fair scheduling crawl returns its report, and by then every
\* spawned task has finished: none is left running, waiting for a permit,
\* for a response or for its children.
C15_Terminates ==
    <>(crawl_pc = "done" /\ \A t \in Tasks : tasks[t].pc \in {"idle", "done"})

\* crawl has returned after a crawl in which a page spawned a child that was
\* fetched and counted, and some task went round the retry loop
C15_Witness ==
    /\ crawl_pc = "done"
    /\ \E t \in Tasks : tasks[t].depth = 1 /\ tasks[t].counted /\ tasks[t].pc = "done"
    /\ \E t \in Tasks : tasks[t].attempts = 2 /\ tasks[t].pc = "done"

\* C16: a child task exists only once its parent page is fully processed:
\* from the creation of a child of p on (so before any network attempt for
\* it), p has its record in the site map, p is in visited_urls and p's
\* success is counted in total_links; p itself waits for its children.
C16_ParentProcessedFirst ==
    \A c \in Tasks :
        (tasks[c].pc # "idle" /\ tasks[c].parent # 0) =>
            LET p == tasks[tasks[c].parent]
            IN /\ p.url \in DOMAIN site_map
               /\ p.url \in visited_urls
               /\ p.counted /\ total_links >= 1
               /\ p.pc \in {"gather", "done"}
               /\ p.pc = "done" => tasks[c].pc = "done"
               /\ tasks[c].depth = p.depth + 1
               /\ tasks[c].origin = p.origin

\* the request for a child is in flight while its parent awaits it
C16_Witness ==
    \E c \in Tasks :
        /\ tasks[c].parent # 0 /\ tasks[c].pc = "get" /\ tasks[c].attempts = 1
        /\ tasks[tasks[c].parent].pc = "gather"

\* the tasks that obtained a permit and have not returned
Holders == {t \in Tasks : tasks[t].acquired /\ tasks[t].pc \notin {"idle", "done"}}

\* C17: the tasks that have acquired a permit and have not yet finished are
\* never more than the pool size min(100, 2 * max_links).
C17_HoldersWithinPool == Cardinality(Holders) <= PoolSize(config)

\* the top-level tasks: those crawl created
TopTasks == {t \in Tasks : tasks[t].pc # "idle" /\ tasks[t].parent = 0}

\* C18: crawl creates exactly one top-level task per seed, at depth 0 and
\* with the seed as its origin, all of them in one go; generate_output is
\* called once, with the seeds, when every one of these tasks (and so every
\* task) is done, and its result is what crawl returns.
C18_OneTaskPerSeed ==
    /\ [](crawl_pc # "idle" =>
            /\ \A u \in start_urls :
                  Cardinality({t \in TopTasks : tasks[t].url = u}) = 1
            /\ \A t \in TopTasks :
                  /\ tasks[t].url \in start_urls
                  /\ tasks[t].depth = 0
                  /\ tasks[t].origin = tasks[t].url)
    /\ [](report # NoReport <=> crawl_pc = "done")
    /\ [][/\ (crawl_pc = "idle" /\ crawl_pc' # "idle") =>
               \A u \in start_urls' :
                  \E t \in Tasks : tasks'[t].url = u /\ tasks'[t].pc = "start"
          /\ report' # report =>
               /\ report = NoReport
               /\ \A t \in Tasks : tasks[t].pc \in {"idle", "done"}
               /\ TopTasks # {}
               /\ report' = generate_output(start_urls)
               /\ report'.start_urls = start_urls
               /\ UNCHANGED <<tasks, site_map, start_urls>>]_vars

\* crawl has returned the report of a crawl of two seeds: one page recorded,
\* the other seed failed
C18_Witness ==
    /\ crawl_pc = "done"
    /\ Cardinality(start_urls) = 2 /\ Cardinality(TopTasks) = 2
    /\ report.start_urls = start_urls
    /\ report.total_pages = 1
    /\ report.site_map = site_map
    /\ failed_urls # {}

\* for a seed, the URLs on the host of the seed, and the URLs whose path
\* starts with the path of the seed
C19_SameHost == [o \in URLs |-> {u \in URLs : DomainOf[u] = DomainOf[o]}]
C19_UnderPath ==
    [o \in URLs |-> {u \in URLs : StartsWith(urlparse(Chars(u)).path,
                                              urlparse(Chars(o)).path)}]

\* C19: every task below a seed (depth >= 1) is for a URL on the host of
\* the seed it descends from and, when same_path_only is set, with a path
\* that starts with the path of the seed; so a link to another host is never
\* fetched, and every page record was added by a task whose URL is on the
\* host of its seed.
C19_OnlyInternalFollowed ==
    /\ \A t \in Tasks :
          tasks[t].pc # "idle" =>
             /\ tasks[t].url \in C19_SameHost[tasks[t].origin]
             /\ tasks[t].depth >= 1 =>
                   /\ tasks[t].origin \in start_urls
                   /\ config.same_path_only =>
                         tasks[t].url \in C19_UnderPath[tasks[t].origin]
    /\ \A u \in DOMAIN site_map :
          \E t \in TasksOf(u) : tasks[t].counted

\* pages found under a seed were fetched and recorded, one with
\* same_path_only set
C19_Witness ==
    \E t \in Tasks :
        /\ tasks[t].depth = 1 /\ tasks[t].counted
        /\ tasks[t].url \in DOMAIN site_map
        /\ config.same_path_only

\* The links of a fetched page that every admission test other than the stop
\* flag lets through: internal, valid, allowed by robots.txt, not excluded,
\* not a file, not visited, not failed, circuit closed, depth within limit.
C20_Admissible(t, hrefs) ==
    LET tk == tasks[t]
        st == [stop |-> FALSE, visited |-> visited_urls \cup {tk.url},
               failed |-> failed_urls, cb |-> CB]
    IN {l \in (extract_links(hrefs)
                 \cap InternalURLs[config.same_path_only][tk.origin]) \ ExcludedURLs :
           _should_crawl(st, l, tk.depth + 1, tk.origin).result}

C20_Launched == {c \in Tasks : tasks[c].pc = "idle" /\ tasks'[c].pc # "idle"}

\* C20: with max_links = 1, when the page of a seed is fetched and carries at
\* least two admissible internal links, exactly one of them is launched as an
\* additional page to crawl.
C20_OneAdditionalPage ==
    [][\A t \in Tasks, hrefs \in SUBSET WideURLs :
          (/\ config.max_links = 1
           /\ tasks[t].pc = "get"
           /\ tasks[t].depth = 0
           /\ Cardinality(C20_Admissible(t, hrefs)) >= 2
           /\ Success(t, hrefs))
          => Cardinality(C20_Launched) = 1]_vars

\* C23: every attempt that ends in a 5xx status, a timeout or a transport
\* error adds exactly one to the failure count of the domain of its URL and
\* changes no other count; an attempt that ends in any other way but a page
\* leaves the breaker as it was; the attempt that yields a page (200, HTML,
\* decoded) leaves the count of its domain at zero, and no other end of an
\* attempt lowers a count.
C23_BreakerCountsAttempts ==
    [][\A t \in Tasks :
          tasks[t].pc = "get" =>
             LET d == Domain(tasks[t].url)
             IN /\ \A o \in Outcomes :
                      /\ RetryableFailure(t, o) =>
                            /\ Get(failures', d) = Get(failures, d) + 1
                            /\ \A e \in Domains \ {d} : Get(failures', e) = Get(failures, e)
                      /\ (TerminalFailure(t, o) \/ NotPage(t, o)) =>
                            UNCHANGED <<failures, open_circuits>>
                /\ (tasks'[t].counted /\ ~tasks[t].counted) => Get(failures', d) = 0
                /\ (tasks'[t].pc # "get" /\ ~tasks'[t].counted) =>
                      \A e \in Domains : Get(failures', e) >= Get(failures, e)]_vars

\* two URLs of one domain have each had one failed attempt, and the count of
\* the domain is two
C23_Witness ==
    \E t1 \in Tasks, t2 \in Tasks :
        /\ tasks[t1].pc \in {"backoff", "done"} /\ tasks[t2].pc \in {"backoff", "done"}
        /\ tasks[t1].url # tasks[t2].url
        /\ Domain(tasks[t1].url) = Domain(tasks[t2].url)
        /\ tasks[t1].hist = "retryable" /\ tasks[t2].hist = "retryable"
        /\ tasks[t1].attempts = 1 /\ tasks[t2].attempts = 1
        /\ Get(failures, Domain(tasks[t1].url)) = 2

C24_Outcomes == {"200_not_html", "200_undecodable"}

\* C24 as stated: a 200 response that is not HTML or cannot be decoded ends
\* the task after exactly one attempt, with the URL added to visited_urls and
\* nothing else recorded.
C24_ExactlyOneAttempt ==
    [][\A t \in Tasks, o \in C24_Outcomes :
          NotPage(t, o) =>
             /\ tasks'[t].attempts = 1
             /\ tasks'[t].pc = "done"
             /\ tasks'[t].url \in visited_urls']_vars

\* C24, amended: a 200 response that is not HTML or cannot be decoded ends
\* the task at once: no attempt follows it (the attempts of the task are the
\* one answered plus the retryable failures before it), the URL is added to
\* visited_urls, and failed_urls, the site map, total_links, the stop flag,
\* error_counts and the breaker are as before; no task is created and a
\* finished task never acts again.
C24_NotPageTerminal ==
    [][/\ \A t \in Tasks, o \in C24_Outcomes :
            NotPage(t, o) =>
               /\ tasks'[t].pc = "done"
               /\ tasks'[t].attempts = tasks[t].attempts
               /\ tasks'[t].attempts = tasks[t].retry_count + 1
               /\ visited_urls' = visited_urls \cup {tasks[t].url}
               /\ \A c \in Tasks \ {t} : tasks'[c] = tasks[c]
               /\ UNCHANGED <<failed_urls, site_map, total_links, stop_crawling,
                              error_counts, failures, open_circuits>>
       /\ \A t \in Tasks : tasks[t].pc = "done" => tasks'[t] = tasks[t]]_vars

\* the only seed of a crawl was answered 200 without a page on its second
\* attempt (the first was a retryable failure): it is visited, not failed,
\* has no page record and is not counted
C24_Witness ==
    \E t \in Tasks :
        /\ start_urls = {tasks[t].url} /\ tasks[t].pc = "done"
        /\ tasks[t].attempts = 2 /\ tasks[t].retry_count = 1
        /\ tasks[t].hist = "other"
        /\ visited_urls = {tasks[t].url}
        /\ failed_urls = {} /\ site_map = EmptyDict /\ total_links = 0
        /\ Cardinality(DOMAIN error_counts) = 1

\* C25: the depth limit bounds the traversal: no task exists, and so no
\* attempt is made, at a depth above max_depth; every page record has a depth
\* in 0..max_depth; with max_depth = 0 only seeds are fetched.
C25_DepthBounded ==
    /\ \A t \in Tasks :
          tasks[t].pc # "idle" =>
             /\ tasks[t].depth \in 0..config.max_depth
             /\ (config.max_depth = 0 /\ tasks[t].attempts >= 1) =>
                   tasks[t].parent = 0 /\ tasks[t].url \in start_urls
    /\ \A u \in DOMAIN site_map : site_map[u] \in 0..config.max_depth

\* a page at the depth limit has been fetched and recorded, and the page that
\* linked to it is a seed
C25_Witness ==
    \E t \in Tasks :
        /\ config.max_depth = 1 /\ tasks[t].depth = 1
        /\ tasks[t].pc = "done" /\ tasks[t].counted
        /\ tasks[t].url \in DOMAIN site_map /\ site_map[tasks[t].url] = 1
        /\ tasks[t].parent # 0 /\ tasks[tasks[t].parent].depth = 0

\* C26: a task whose URL _should_crawl rejects ends without a network
\* attempt and leaves visited_urls, failed_urls, total_links, the stop flag,
\* error_counts and the site map as they were; and no network attempt is
\* ever made for a URL that is in failed_urls.
C26_RejectionSilent ==
    [][\A t \in Tasks :
          /\ (/\ Acquire(t)
              /\ links_semaphore > 0
              /\ ~_should_crawl(SessionState, tasks[t].url, tasks[t].depth,
                                tasks[t].origin).result) =>
                /\ tasks'[t].pc = "done" /\ tasks'[t].attempts = 0
                /\ UNCHANGED <<visited_urls, failed_urls, total_links, stop_crawling,
                               error_counts, site_map>>
          /\ (tasks[t].pc = "sleep" /\ tasks'[t].pc = "get") =>
                tasks[t].url \notin failed_urls]_vars

\* C27: a task that finds the permit pool saturated, at the pre-check or
\* when its wait for a permit ends without one, is over: it has made no
\* network attempt, holds and releases no permit, and visited_urls,
\* failed_urls, total_links and the pool are as they were.
C27_SaturatedSkips ==
    [][\A t \in Tasks :
          (/\ links_semaphore = 0
           /\ (Start(t) /\ ~stop_crawling) \/ Acquire(t)) =>
             /\ tasks'[t].pc = "done"
             /\ tasks'[t].attempts = 0
             /\ ~tasks'[t].acquired /\ tasks'[t].releases = 0
             /\ UNCHANGED <<links_semaphore, visited_urls, failed_urls, total_links>>]_vars

\* every permit of a non-empty pool is held, the stop flag is not set, and a
\* task that started with the flag unset has been skipped
C27_Witness ==
    /\ ~stop_crawling /\ links_semaphore = 0
    /\ Cardinality(Holders) = PoolSize(config) /\ PoolSize(config) > 0
    /\ \E t \in Tasks :
          /\ tasks[t].pc = "done" /\ ~tasks[t].late /\ ~tasks[t].acquired
          /\ tasks[t].attempts = 0 /\ tasks[t].releases = 0

\* the URL of task t passes every admission test of crawler.py 165-181
C28_Admissible(t) ==
    /\ tasks[t].url \notin ExcludedURLs
    /\ _should_crawl(SessionState, tasks[t].url, tasks[t].depth, tasks[t].origin).result

\* C28: while the stop flag is not set and total_links is below max_links, a
\* task whose URL passes every admission test is never skipped for want of a
\* permit.
C28_NoStarvation ==
    [][\A t \in Tasks :
          (/\ ~stop_crawling /\ total_links < config.max_links
           /\ links_semaphore = 0
           /\ Start(t) \/ Acquire(t)) => ~C28_Admissible(t)]_vars

\* C29: a task that spawned children is over, and has released its permit,
\* only when every one of them is over; so once crawl has generated the
\* report no task is running and the site map is the one the report was
\* built from.
C29_ParentAfterChildren ==
    /\ \A c \in Tasks :
          (tasks[c].pc \notin {"idle", "done"} /\ tasks[c].parent # 0) =>
             /\ tasks[tasks[c].parent].pc = "gather"
             /\ tasks[tasks[c].parent].releases = 0
    /\ crawl_pc = "done" =>
          /\ Running = {}
          /\ report.site_map = site_map
          /\ report.total_pages = Cardinality(DOMAIN site_map)

\* crawl has returned a report of two pages, one of them a child whose
\* parent released its permit once
C29_Witness ==
    /\ crawl_pc = "done" /\ report.total_pages = 2
    /\ \E c \in Tasks :
          /\ tasks[c].parent # 0 /\ tasks[c].pc = "done" /\ tasks[c].counted
          /\ tasks[tasks[c].parent].pc = "done"
          /\ tasks[tasks[c].parent].releases = 1

\* C30: no network attempt (first attempt or retry) is made for a URL while
\* the circuit of its domain is open.
C30_NoAttemptWhileOpen ==
    [][\A t \in Tasks :
          (tasks[t].pc = "sleep" /\ Get_(t)) => ~CircuitOpen(Domain(tasks[t].url))]_vars

\* C31: record_success is never called for a domain whose circuit is open:
\* the attempt that yields a page (the only caller of record_success) ends
\* while the domain of its URL has no unexpired open-until entry.
C31_NoSuccessWhileOpen ==
    [][\A t \in Tasks :
          (tasks[t].pc = "get" /\ tasks'[t].counted /\ ~tasks[t].counted) =>
             ~CircuitOpen(Domain(tasks[t].url))]_vars

\* the sum of a sequence of numbers
RECURSIVE C32_Sum(_)
C32_Sum(q) == IF q = <<>> THEN 0 ELSE Head(q) + C32_Sum(Tail(q))

\* C32 as stated: the delay between the end of failed attempt number k and
\* the next attempt is retry_delay * 2^k plus a jitter between 0 and 1, and
\* nothing else.
C32_BackoffOnly ==
    \A t \in Tasks :
        (tasks[t].pc = "get" /\ tasks[t].retry_count >= 1) =>
           C32_Sum(tasks[t].slept) - retry_delay * 2^(tasks[t].retry_count - 1) \in 0..1

\* C32, amended: the first attempt is preceded by the pacing delay alone; the
\* retry that follows failed attempt number k is preceded by a backoff of
\* retry_delay * 2^k plus a jitter between 0 and 1 and then by the pacing
\* delay; attempt number k is made with retry_count = k, and no backoff
\* follows the failed attempt made with retry_count = max_retries.
C32_BackoffDoubles ==
    \A t \in Tasks :
        /\ tasks[t].pc = "get" =>
              /\ tasks[t].attempts = tasks[t].retry_count + 1
              /\ IF tasks[t].retry_count = 0
                 THEN tasks[t].slept = <<delay>>
                 ELSE /\ Len(tasks[t].slept) = 2
                      /\ tasks[t].slept[1] - retry_delay * 2^(tasks[t].retry_count - 1)
                             \in 0..1
                      /\ tasks[t].slept[2] = delay
        /\ tasks[t].pc = "backoff" => tasks[t].retry_count < config.max_retries
        /\ tasks[t].retry_count <= config.max_retries

\* the third attempt of a task is under way; the backoff before it was twice
\* the base delay plus the largest jitter
C32_Witness ==
    \E t \in Tasks :
        /\ tasks[t].pc = "get" /\ tasks[t].retry_count = 2
        /\ tasks[t].slept = <<retry_delay * 2 + 1, delay>>

\* C33: visited_urls and the site map never hold two distinct URLs that have
\* the same normalized form.
C33_OneIdentity ==
    \A u \in visited_urls \cup DOMAIN site_map :
        \A v \in visited_urls \cup DOMAIN site_map :
            NormalOf[u] = NormalOf[v] => u = v

\* C34: the text corpus holds exactly one entry for every URL of the site
\* map whose page has content, and no entry for any other URL; the report
\* carries that corpus.
C34_OneSectionPerPage ==
    /\ \A u \in DOMAIN site_map : u \notin BlankPages => Get(concatenated_text, u) = 1
    /\ \A u \in DOMAIN concatenated_text : u \in DOMAIN site_map
    /\ crawl_pc = "done" => report.llmfulltext = concatenated_text

\* C35: no URL is in both visited_urls and failed_urls.
C35_VisitedOrFailed == visited_urls \cap failed_urls = {}

\* the tasks that count their page in the step
C36_Counting == {t \in Tasks : tasks'[t].counted /\ ~tasks[t].counted}

\* C36: the stop flag is never reset; for max_links >= 1 it is set in exactly
\* the states where total_links >= max_links; total_links never decreases
\* and grows by one in exactly the steps in which a task counts its page, one
\* task at a time.
C36_StopTiedToBudget ==
    /\ [](config.max_links >= 1 => (stop_crawling <=> total_links >= config.max_links))
    /\ [][/\ stop_crawling => stop_crawling'
          /\ total_links' = total_links + Cardinality(C36_Counting)
          /\ Cardinality(C36_Counting) <= 1]_vars

\* the budget of two pages has just been used up and the flag is set
C36_Witness ==
    /\ config.max_links = 2 /\ total_links = 2 /\ stop_crawling
    /\ Cardinality({t \in Tasks : tasks[t].counted}) = 2

\* C38: every URL of the site map is in visited_urls, and when crawl has
\* returned, the report's total_pages equals total_links.
C38_ReportAgrees ==
    /\ DOMAIN site_map \subseteq visited_urls
    /\ crawl_pc = "done" => report.total_pages = total_links

\* C39: a task that is over after at least one network attempt has left its
\* URL in visited_urls or in failed_urls; a task waiting for its children has
\* its URL in visited_urls already.
C39_TerminalOutcome ==
    \A t \in Tasks :
        /\ (tasks[t].pc = "done" /\ tasks[t].attempts >= 1) =>
               tasks[t].url \in visited_urls \cup failed_urls
        /\ tasks[t].pc = "gather" => tasks[t].url \in visited_urls

\* one task is over after max_retries + 1 failed attempts with its URL failed
\* and not visited, another after an exception that is not retried, a third
\* with its URL visited and not failed
C39_Witness ==
    \E t1, t2, t3 \in Tasks :
        /\ config.max_retries = 1
        /\ tasks[t1].pc = "done" /\ tasks[t1].attempts = 2 /\ tasks[t1].hist = "retryable"
        /\ tasks[t1].url \in failed_urls \ visited_urls
        /\ tasks[t2].pc = "done" /\ tasks[t2].attempts = 1 /\ tasks[t2].hist = "other"
        /\ tasks[t2].url \in failed_urls \ visited_urls
        /\ Get(error_counts, "Exception") = 1
        /\ tasks[t3].pc = "done" /\ tasks[t3].attempts = 1
        /\ tasks[t3].url \in visited_urls \ failed_urls

\* the sum of the tallies of error_counts over the keys of the set S
RECURSIVE C40_Tally(_, _)
C40_Tally(ec, S) ==
    IF S = {} THEN 0
    ELSE LET k == CHOOSE x \in S : TRUE IN ec[k] + C40_Tally(ec, S \ {k})

C40_Total(ec) == C40_Tally(ec, DOMAIN ec)

\* the attempts of task t that are over
C40_Finished(t) == tasks[t].attempts - (IF tasks[t].pc = "get" THEN 1 ELSE 0)

RECURSIVE C40_FinishedIn(_)
C40_FinishedIn(S) ==
    IF S = {} THEN 0
    ELSE LET t == CHOOSE x \in S : TRUE IN C40_Finished(t) + C40_FinishedIn(S \ {t})

\* the tasks whose attempt ends in the step
C40_Ending == {t \in Tasks : tasks[t].pc = "get" /\ tasks'[t].pc # "get"}

\* C40: an attempt that ends in a non-200 status, a timeout, a transport
\* error or an exception adds one to exactly one entry of error_counts, the
\* one of its kind; an attempt that ends in a 200 response, and every step
\* in which no attempt ends, leaves error_counts as it was.  So while no
\* attempt of the crawl has ended otherwise than in a retryable failure, the
\* sum of the tallies is the number of attempts that are over, and a task
\* all of whose attempts were answered 5xx has added max_retries + 1.
C40_TallyOneForOne ==
    /\ [](/\ DOMAIN error_counts \subseteq {ErrorType(o) : o \in C14_Failures}
          /\ (\A t \in Tasks : tasks[t].hist # "other") =>
                 C40_Total(error_counts) = C40_FinishedIn(Tasks))
    /\ [][/\ \A t \in Tasks, o \in C14_Failures :
              (RetryableFailure(t, o) \/ TerminalFailure(t, o)) =>
                 /\ Get(error_counts', ErrorType(o)) = Get(error_counts, ErrorType(o)) + 1
                 /\ \A k \in (DOMAIN error_counts') \ {ErrorType(o)} :
                        k \in DOMAIN error_counts /\ error_counts'[k] = error_counts[k]
                 /\ C40_Total(error_counts') = C40_Total(error_counts) + 1
          /\ \A t \in Tasks :
                (t \in C40_Ending /\ tasks'[t].url \in visited_urls' /\ failed_urls' = failed_urls
                   /\ tasks'[t].pc \in {"gather", "done"} /\ tasks[t].url \notin failed_urls) =>
                      error_counts' = error_counts
          /\ C40_Ending = {} => error_counts' = error_counts
          /\ Cardinality(C40_Ending) <= 1]_vars

\* the only task of a crawl is over after max_retries + 1 = 2 attempts that
\* were all answered 500: the tally of HTTP 500 is 2 and there is no other
C40_Witness ==
    \E t \in Tasks :
        /\ config.max_retries = 1
        /\ start_urls = {tasks[t].url}
        /\ \A s \in Tasks \ {t} : tasks[s].pc = "idle"
        /\ tasks[t].pc = "done" /\ tasks[t].hist = "retryable" /\ tasks[t].attempts = 2
        /\ DOMAIN error_counts = {"HTTP 500"} /\ error_counts["HTTP 500"] = 2
        /\ tasks[t].url \in failed_urls

\* C21: _normalize_url is idempotent: applied to its own result it returns
\* that result unchanged.
C21_Idempotent == normalized.calls = 2 => normalized.result = normalized.before

\* ------------------------------------------------------------------------
\* Circuit breaker properties (checked under SpecCB)
\* ------------------------------------------------------------------------
\* what is_open(domain) answers on the breaker <<f, o>>
IsOpenIn(f, o, domain) == is_open([failures |-> f, open_circuits |-> o], domain).result

\* C8: on a closed circuit (no open-until entry) a record_failure call makes
\* is_open true exactly when it brings the run of consecutive failures up to
\* the threshold; the failure count is then the length of the run (it is not
\* reset by the opening), and a closed circuit always has a count below the
\* threshold.
C8_OpensExactlyAtThreshold ==
    [][\A d \in Domains :
          (CB_record_failure(d) /\ d \notin DOMAIN open_circuits) =>
             /\ consec[d] < circuit_breaker_threshold
             /\ IsOpenIn(failures', open_circuits', d)
                    = (consec'[d] = circuit_breaker_threshold)
             /\ Get(failures', d) = consec'[d]
             /\ Get(failures', d) = Get(failures, d) + 1]_vars

C8_Witness ==
    /\ cb_last.op = "record_failure"
    /\ cb_last.before = circuit_breaker_threshold - 1
    /\ consec[cb_last.domain] = circuit_breaker_threshold
    /\ cb_last.domain \in DOMAIN open_circuits
    /\ open_circuits[cb_last.domain] = now + circuit_breaker_timeout
    /\ failures[cb_last.domain] = circuit_breaker_threshold

\* C9: an open-until entry whose time has not passed survives every call
\* unchanged (the circuit stays open), and an is_open query made after the
\* open-until time answers false, deletes the entry and zeroes the count.
C9_OpenUntilTimeout ==
    [][\A d \in Domains :
          /\ (d \in DOMAIN open_circuits /\ now' <= open_circuits[d]) =>
                /\ d \in DOMAIN open_circuits'
                /\ open_circuits'[d] = open_circuits[d]
                /\ IsOpenIn(failures', open_circuits', d)
          /\ (CB_is_open(d) /\ d \in DOMAIN open_circuits /\ now > open_circuits[d]) =>
                /\ cb_last'.result = FALSE
                /\ d \notin DOMAIN open_circuits'
                /\ d \in DOMAIN failures' /\ failures'[d] = 0]_vars

C9_Witness ==
    /\ cb_last.op = "is_open"
    /\ cb_last.result = FALSE
    /\ cb_last.before > circuit_breaker_threshold
    /\ now > circuit_breaker_timeout
    /\ cb_last.domain \notin DOMAIN open_circuits
    /\ cb_last.domain \in DOMAIN failures /\ failures[cb_last.domain] = 0

\* C10: record_success zeroes the failure count of its domain and leaves
\* open_circuits as it was, so a circuit that is open stays open.
C10_SuccessKeepsCircuit ==
    [][\A d \in Domains :
          CB_record_success(d) =>
             /\ Get(failures', d) = 0
             /\ open_circuits' = open_circuits
             /\ IsOpenIn(failures, open_circuits, d)
                    => IsOpenIn(failures', open_circuits', d)]_vars

C10_Witness ==
    /\ cb_last.op = "record_success"
    /\ cb_last.before >= circuit_breaker_threshold
    /\ cb_last.domain \in DOMAIN open_circuits
    /\ now <= open_circuits[cb_last.domain]
    /\ failures[cb_last.domain] = 0

\* the failure count and the open-until entry of domain e in the breaker <<f, o>>
C22_Entry(f, o, e) ==
    [counted |-> e \in DOMAIN f, failures |-> Get(f, e),
     open |-> e \in DOMAIN o, until |-> Get(o, e)]

\* C22: a record_failure, record_success or is_open call on domain d leaves
\* the failure count and the open-until entry of every other domain as they
\* were, so a call that opens the circuit of d leaves a closed circuit closed.
C22_PerDomain ==
    [][\A d \in Domains : \A e \in Domains \ {d} :
          (CB_record_failure(d) \/ CB_record_success(d) \/ CB_is_open(d)) =>
             /\ C22_Entry(failures', open_circuits', e) = C22_Entry(failures, open_circuits, e)
             /\ IsOpenIn(failures', open_circuits', e) = IsOpenIn(failures, open_circuits, e)]_vars

C22_Witness ==
    /\ cb_last.op = "record_failure"
    /\ cb_last.before = circuit_breaker_threshold - 1
    /\ cb_last.domain \in DOMAIN open_circuits
    /\ now <= open_circuits[cb_last.domain]
    /\ \E e \in Domains \ {cb_last.domain} :
          /\ Get(failures, e) = circuit_breaker_threshold - 1
          /\ e \notin DOMAIN open_circuits

\* C37: record_failure on a domain that has an open-until entry adds one to
\* the failure count and leaves the entry (and every other entry) as it was,
\* whether or not the open-until time has passed; the next is_open query made
\* after that time answers false, deletes the entry and zeroes the count
\* whatever was recorded in between, so the circuit is closed after it.
C37_FailuresNeverProlong ==
    [][\A d \in Domains :
          /\ (CB_record_failure(d) /\ d \in DOMAIN open_circuits) =>
                /\ failures'[d] = Get(failures, d) + 1
                /\ open_circuits' = open_circuits
          /\ (CB_is_open(d) /\ d \in DOMAIN open_circuits /\ now > open_circuits[d]
                /\ Get(failures, d) > circuit_breaker_threshold) =>
                /\ cb_last'.result = FALSE
                /\ failures'[d] = 0
                /\ d \notin DOMAIN open_circuits'
                /\ ~IsOpenIn(failures', open_circuits', d)]_vars

\* a failure was recorded on a domain whose open-until time had passed and
\* whose entry is still there, unchanged
C37_Witness ==
    /\ cb_last.op = "record_failure"
    /\ cb_last.before >= circuit_breaker_threshold
    /\ cb_last.domain \in DOMAIN open_circuits
    /\ open_circuits[cb_last.domain] = circuit_breaker_timeout
    /\ now > open_circuits[cb_last.domain]
    /\ failures[cb_last.domain] = cb_last.before + 1

====
